---- MODULE Spec2Model ----
(***************************************************************************)
(* Weather-Forecast backend: the city endpoint                             *)
(* (controllers/weatherController.js), the caching lookup                  *)
(* (services/weatherService.js) and the node-cache instance it owns.       *)
(*                                                                         *)
(* Strings that the code inspects character by character (the city name:   *)
(* toLowerCase, trim) are tuples of one-character strings.  Strings the    *)
(* code only concatenates (error messages) are tuples of their pieces.     *)
(* Temperatures are integers counting tenths of a degree.                  *)
(* Time is a discrete clock; one tick stands for one unit of Date.now().   *)
(*                                                                         *)
(* Node runs one callback at a time, so each action is one uninterrupted   *)
(* run of JavaScript: from the arrival of a request to the first await     *)
(* that really suspends (the axios call), and from the arrival of the      *)
(* upstream answer to the end of the handler.                              *)
(***************************************************************************)
EXTENDS Integers, Sequences, FiniteSets, TLC

(* ---------------------------- bounds ----------------------------------- *)

\* Number of lookups that may be waiting for upstream at once.
MaxInFlight == 2

\* Last value of the clock.
MaxTime == 3

\* Temperatures of the formatting specification range over
\* -MaxTenths .. MaxTenths tenths of a degree.
MaxTenths == 160

\* feelslike_c lies within MaxFeelsGap tenths of temp_c there.
MaxFeelsGap == 15

\* Number of fetchWeather calls the frontend may have in flight at once.
MaxFetches == 2

(* ------------------------ configuration -------------------------------- *)

\* stdTTL: parseInt(process.env.CACHE_TTL || 600), here in clock ticks.
TTL == 2

\* maxKeys: parseInt(process.env.MAX_CACHE_ENTRIES || 100).
MaxKeys == 2

(* --------------------------- strings ----------------------------------- *)

UpperChars == <<"A","B","C","D","E","F","G","H","I","J","K","L","M",
                "N","O","P","Q","R","S","T","U","V","W","X","Y","Z">>

LowerChars == <<"a","b","c","d","e","f","g","h","i","j","k","l","m",
                "n","o","p","q","r","s","t","u","v","w","x","y","z">>

\* String.prototype.toLowerCase on one character.
LowerChar(c) ==
  IF \E i \in 1..Len(UpperChars) : UpperChars[i] = c
  THEN LowerChars[CHOOSE i \in 1..Len(UpperChars) : UpperChars[i] = c]
  ELSE c

\* String.prototype.toLowerCase.
ToLowerCase(s) == [i \in 1..Len(s) |-> LowerChar(s[i])]

\* White space as String.prototype.trim sees it (the characters used here).
IsSpace(c) == c \in {" ", "\t"}

\* String.prototype.trim: drops leading and trailing white space.
Trim(s) ==
  IF \A i \in 1..Len(s) : IsSpace(s[i])
  THEN <<>>
  ELSE LET first == CHOOSE i \in 1..Len(s) :
                       /\ ~IsSpace(s[i])
                       /\ \A j \in 1..(i-1) : IsSpace(s[j])
           last  == CHOOSE i \in 1..Len(s) :
                       /\ ~IsSpace(s[i])
                       /\ \A j \in (i+1)..Len(s) : IsSpace(s[j])
       IN  SubSeq(s, first, last)

(* ------------------------ request inputs ------------------------------- *)

London     == <<"L","o","n","d","o","n">>
london     == <<"l","o","n","d","o","n">>
LondonPad  == <<" ","l","o","n","d","o","n">>
Paris      == <<"P","a","r","i","s">>
EmptyStr   == <<>>
Blank      == <<" "," ">>

\* The strings a client may send as ?city=...
CityStrings == {London, london, LondonPad, Paris, EmptyStr, Blank}

\* req.query.city: absent, a string, or an array (?city=a&city=b).
QMissing == [type |-> "undefined", s |-> EmptyStr]
QArray   == [type |-> "object", s |-> EmptyStr]
QStr(s)  == [type |-> "string", s |-> s]

Queries == {QMissing, QArray} \cup {QStr(s) : s \in CityStrings}

(* ------------------------ upstream answers ----------------------------- *)

\* JavaScript's undefined in a string field and NaN in a number field.
Undefined == "undefined"
NaN == -99999

NoCurrent == [def |-> FALSE, temp_c |-> NaN, feelslike_c |-> NaN, is_day |-> NaN]
NoLocation == [def |-> FALSE, name |-> Undefined]

\* current{temp_c, feelslike_c, is_day} of the provider's body.
Current(t, f, d) == [def |-> TRUE, temp_c |-> t, feelslike_c |-> f, is_day |-> d]

\* location{name} of the provider's body.
Location(n) == [def |-> TRUE, name |-> n]

\* response.data: truthy (an object) or falsy (an empty body).
Body(l, c) == [truthy |-> TRUE, location |-> l, current |-> c]
EmptyBody == [truthy |-> FALSE, location |-> NoLocation, current |-> NoCurrent]

\* The payload of the specification's example: 15.4, 14.0, day.
GoodBody == Body(Location("London"), Current(154, 140, 1))

\* Bodies the provider may send with a 2xx status.
Bodies == { GoodBody,
            Body(Location("Paris"), Current(-25, -31, 0)),
            Body(NoLocation, NoCurrent),
            Body(Location("London"), NoCurrent),
            Body(NoLocation, Current(154, 140, 1)),
            EmptyBody }

NoMatch == "No matching location found."

\* What axios.get settles with.  status 0: no response at all (network
\* error).  pmsg: response.data.error.message, "" when the body has none.
\* emsg: the message of the error axios rejects with.
Resolved(st, b) == [status |-> st, body |-> b, pmsg |-> "", emsg |-> ""]
Rejected(st, pm, em) == [status |-> st, body |-> EmptyBody, pmsg |-> pm, emsg |-> em]

UpstreamAnswers ==
  {Resolved(200, b) : b \in Bodies}
  \cup {Resolved(204, GoodBody)}
  \cup { Rejected(400, NoMatch, "Request failed with status code 400"),
         Rejected(404, "City not found", "Request failed with status code 404"),
         Rejected(401, "API key is invalid.", "Request failed with status code 401"),
         Rejected(500, "", "Request failed with status code 500"),
         Rejected(0, "", "Network Error") }

\* The answers explored together with the whole life of cache entries.
LifecycleAnswers ==
  { Resolved(200, GoodBody),
    Rejected(400, NoMatch, "Request failed with status code 400") }

\* The requests explored together with every upstream answer.
UpstreamQueries == {QMissing, QStr(London), QStr(LondonPad)}

\* is_day as the provider may send it; NaN stands for a value that is not a
\* number (absent, "1", true).
DayFlags == {0, 1, 2, NaN}

\* The bodies the formatting specification draws from.
FormatInputs ==
  { Body(Location("London"), Current(t, t + g, d)) :
      t \in (-MaxTenths)..MaxTenths, g \in (-MaxFeelsGap)..MaxFeelsGap, d \in DayFlags }

\* axios' default validateStatus: the promise resolves for 2xx only.
AxiosResolves(r) == r.status >= 200 /\ r.status < 300

(* ----------------------- formatWeatherData ------------------------------ *)

\* Math.floor in the place of Math.round.
MathFloor(x) == IF x = NaN THEN NaN ELSE x \div 10

\* Math.round on a number of tenths: floor(x + 0.5); NaN stays NaN.
MathRound(x) == IF x = NaN THEN NaN ELSE (x + 5) \div 10

\* x + n degrees on a number of tenths; NaN stays NaN.
PlusDegrees(x, n) == IF x = NaN THEN NaN ELSE x + 10 * n

\* The fields of the formatted record that the code computes; the other
\* fields (country, coordinates, pressure, humidity, wind, visibility, aqi)
\* are copied from the body unchanged.  clock is new Date().
formatWeatherData(body, clock) ==
  [ city       |-> body.location.name,
    temp       |-> MathRound(body.current.temp_c),
    feels_like |-> MathRound(body.current.feelslike_c),
    temp_min   |-> MathRound(PlusDegrees(body.current.temp_c, -2)),
    temp_max   |-> MathRound(PlusDegrees(body.current.temp_c, 2)),
    is_day     |-> IF body.current.is_day = 1 THEN "day" ELSE "night",
    timestamp  |-> clock ]

NoValue == [ city |-> Undefined, temp |-> NaN, feels_like |-> NaN,
             temp_min |-> NaN, temp_max |-> NaN, is_day |-> "night",
             timestamp |-> -1 ]

(* ----------------------------- node-cache ------------------------------ *)

\* An entry is [v |-> value, t |-> the time it expires at]; the cache is a
\* function from the keys it holds to their entries (stats.keys is the
\* number of keys).

\* _check: an entry is dead once its expiry time lies in the past.
IsExpired(e, clock) == e.t # 0 /\ e.t < clock

\* d without the keys in ks.
Without(d, ks) == [k \in (DOMAIN d) \ ks |-> d[k]]

\* cache.get with a sliding expiry: a hit restarts the entry's TTL.
CacheGetSliding(d, key, clock) ==
  IF key \notin DOMAIN d
  THEN [hit |-> FALSE, v |-> NoValue, data |-> d]
  ELSE IF IsExpired(d[key], clock)
       THEN [hit |-> FALSE, v |-> NoValue, data |-> Without(d, {key})]
       ELSE [hit |-> TRUE, v |-> d[key].v,
             data |-> [d EXCEPT ![key].t = clock + TTL]]

\* cache.get: a live entry is returned; an expired one is deleted and
\* undefined comes back.
CacheGet(d, key, clock) ==
  IF key \notin DOMAIN d
  THEN [hit |-> FALSE, v |-> NoValue, data |-> d]
  ELSE IF IsExpired(d[key], clock)
       THEN [hit |-> FALSE, v |-> NoValue, data |-> Without(d, {key})]
       ELSE [hit |-> TRUE, v |-> d[key].v, data |-> d]

\* The test with > in the place of >=.
CacheIsFullOffByOne(d) == MaxKeys > -1 /\ Cardinality(DOMAIN d) > MaxKeys

\* The test cache.set makes before anything else: ECACHEFULL.
CacheIsFull(d) == MaxKeys > -1 /\ Cardinality(DOMAIN d) >= MaxKeys

\* cache.set that leaves a key it already holds alone.
CacheSetKeepsFirst(d, key, v, clock) ==
  IF CacheIsFull(d)
  THEN [ok |-> FALSE, data |-> d]
  ELSE IF key \in DOMAIN d
       THEN [ok |-> TRUE, data |-> d]
       ELSE [ok |-> TRUE,
             data |-> [k \in (DOMAIN d) \cup {key} |->
                         IF k = key THEN [v |-> v, t |-> clock + TTL] ELSE d[k]]]

\* cache.set taking stdTTL for a number of milliseconds' worth of seconds:
\* the entry lives a thousand times too long.
CacheSetLongLived(d, key, v, clock) ==
  IF CacheIsFull(d)
  THEN [ok |-> FALSE, data |-> d]
  ELSE [ok |-> TRUE,
        data |-> [k \in (DOMAIN d) \cup {key} |->
                    IF k = key THEN [v |-> v, t |-> clock + 1000 * TTL] ELSE d[k]]]

\* cache.set: throws ECACHEFULL when the cache holds maxKeys keys (whether or
\* not the key is one of them), else stores the value with t = now + stdTTL.
CacheSet(d, key, v, clock) ==
  IF CacheIsFull(d)
  THEN [ok |-> FALSE, data |-> d]
  ELSE [ok |-> TRUE,
        data |-> [k \in (DOMAIN d) \cup {key} |->
                    IF k = key THEN [v |-> v, t |-> clock + TTL] ELSE d[k]]]

\* _checkData, run by the checkperiod timer: deletes every expired key.
ExpiredKeys(d, clock) == {k \in DOMAIN d : IsExpired(d[k], clock)}

(* ------------------------------ service -------------------------------- *)

KeyPrefix == <<"w","e","a","t","h","e","r","_">>

\* The key without the lower-casing.
CacheKeyAsTyped(city) == KeyPrefix \o city

\* `weather_${city.toLowerCase()}`
CacheKey(city) == KeyPrefix \o ToLowerCase(city)

\* The outcome of getWeatherByCity: a value tagged fromCache, or an Error.
NoOut == [kind |-> "none", fromCache |-> FALSE, v |-> NoValue, msg |-> <<>>]
Returned(v, c) == [kind |-> "ok", fromCache |-> c, v |-> v, msg |-> <<>>]

\* new Error(`Failed to fetch weather data: ${m}`)
Thrown(m) == [kind |-> "error", fromCache |-> FALSE, v |-> NoValue,
              msg |-> <<"Failed to fetch weather data: ", m>>]

\* The message of the request error alone.
ErrorTextOfRequest(r) == r.emsg

\* error.response?.data?.error?.message || error.message
ErrorText(r) == IF r.pmsg # "" THEN r.pmsg ELSE r.emsg

\* The test that guards formatting and storing.
ResponseIsValid(r) == r.status = 200 /\ r.body.truthy

\* getWeatherByCity from the moment axios.get settles with r.
ServiceSettle(d, city, r, clock) ==
  IF AxiosResolves(r)
  THEN IF ResponseIsValid(r)
       THEN LET weatherData == formatWeatherData(r.body, clock)
                s == CacheSet(d, CacheKey(city), weatherData, clock)
            IN  IF s.ok
                THEN [data |-> s.data, out |-> Returned(weatherData, FALSE)]
                ELSE [data |-> d, out |-> Thrown("Cache max keys amount exceeded")]
       ELSE [data |-> d, out |-> Thrown("Invalid response from weather API")]
  ELSE [data |-> d, out |-> Thrown(ErrorText(r))]

(* ----------------------------- controller ------------------------------ *)

\* The validation without the trim.
CityIsInvalidUntrimmed(q) ==
  \/ q.type = "undefined"
  \/ (q.type = "string" /\ q.s = EmptyStr)
  \/ q.type # "string"

\* !city || typeof city !== 'string' || city.trim() === ''
CityIsInvalid(q) ==
  \/ q.type = "undefined"
  \/ (q.type = "string" /\ q.s = EmptyStr)
  \/ q.type # "string"
  \/ Trim(q.s) = EmptyStr

\* What the client gets: code 0 is "nothing sent yet".
NoHttp == [code |-> 0, status |-> "", cached |-> FALSE, message |-> ""]
BadRequest == [code |-> 400, status |-> "error", cached |-> FALSE,
               message |-> "Please provide a valid city name"]

\* res.json({status: 'success', data, meta: {cached: fromCache || false}})
Success(out) == [code |-> 200, status |-> "success", cached |-> out.fromCache,
                 message |-> ""]

\* The catch block reads `city`, which is declared with const inside the try
\* block and is out of scope there: its first statement throws a
\* ReferenceError and the handler's promise rejects.  What follows depends on
\* the Express release: release 4 ignores the rejection and nothing is ever
\* sent (code -1); release 5 hands it to errorHandler, which answers 500.
\* (A Node release that exits on an unhandled rejection ends the behaviour
\* there.)
Unanswered == [code |-> -1, status |-> "", cached |-> FALSE, message |-> ""]
ErrorHandled == [code |-> 500, status |-> "error", cached |-> FALSE,
                 message |-> "city is not defined"]
CatchOutcomes == {Unanswered, ErrorHandled}

(* ------------------------ coordinates endpoint -------------------------- *)

\* req.query.lat and req.query.lon as a client may send them.
CoordValues == { QMissing, QStr(EmptyStr), QStr(<<"0">>), QStr(<<"5","1",".","5">>) }

\* !lat, !lon: missing or the empty string.
CoordIsMissing(x) == x.type = "undefined" \/ (x.type = "string" /\ x.s = EmptyStr)

BadCoords == [code |-> 400, status |-> "error", cached |-> FALSE,
              message |-> "Please provide valid latitude and longitude"]

\* The service exports getWeatherByCity only: the call
\* weatherService.getWeatherByCoords(lat, lon) throws a TypeError inside the
\* try block.  The catch block then reads `lat` and `lon`, declared with
\* const inside the try block: ReferenceError, as for the city endpoint.
ServiceExports == {"getWeatherByCity"}

CoordsErrorHandled == [code |-> 500, status |-> "error", cached |-> FALSE,
                       message |-> "lat is not defined"]
CoordsCatchOutcomes == {Unanswered, CoordsErrorHandled}

\* res.status(200).json({status: 'success', ...}), sent when the service
\* call returns.
CoordsSuccess == [code |-> 200, status |-> "success", cached |-> FALSE,
                  message |-> "Weather data retrieved successfully"]

(* ------------------------------ frontend ------------------------------- *)

\* The names fetchWeather is called with.
UiNames == {London, Paris}

\* What the user may have typed in the search box.
UiTexts == {EmptyStr, Blank, London, Paris}

\* What the suggestion search may answer.
SuggestionLists == { <<>>, <<London>>, <<London, Paris>> }

\* No debounced suggestion search is waiting.
NoQuery == [def |-> FALSE, s |-> EmptyStr]

\* useState(null), useState(''), useState([]), useState(false), ...;
\* weather is the city of the card shown, EmptyStr for null.  fetches counts
\* the fetchWeather calls waiting for their response, by name.
UiInit == [ weather |-> EmptyStr, city |-> EmptyStr, suggestions |-> <<>>,
            showSuggestions |-> FALSE, loading |-> FALSE, error |-> "",
            query |-> NoQuery, fetches |-> [n \in UiNames |-> 0] ]

(* ------------------------------- state --------------------------------- *)

VARIABLES
  now,      \* the clock
  data,     \* the cache
  pending,  \* how many lookups of each city string are waiting for axios.get
  last,     \* the request that has just been answered (or abandoned)
  okAt,     \* history: when a lookup of this city string last returned fresh data
  raw,      \* the body handed to formatWeatherData (formatting specification)
  formatted, \* what formatWeatherData returned for it
  ui        \* the state of the frontend's App component

vars == <<now, data, pending, last, okAt, raw, formatted, ui>>

NoAnswer == Resolved(0, EmptyBody)

\* No request has just ended.
Quiet == [q |-> QMissing, lat |-> QMissing, lon |-> QMissing, step |-> "none",
          up |-> NoAnswer, out |-> NoOut, http |-> NoHttp]

RECURSIVE Total(_, _)
\* The sum of f over the set S.
Total(f, S) == IF S = {} THEN 0
               ELSE LET c == CHOOSE x \in S : TRUE
                    IN  f[c] + Total(f, S \ {c})

\* The number of lookups waiting for upstream.
InFlight == Total(pending, CityStrings)

Never == -1

Init ==
  /\ now = 0
  /\ data = << >>
  /\ pending = [c \in CityStrings |-> 0]
  /\ last = Quiet
  /\ okAt = [c \in CityStrings |-> Never]
  /\ raw = EmptyBody
  /\ formatted = NoValue
  /\ ui = UiInit

(* ------------------------------ actions -------------------------------- *)

\* A request GET /api/weather/city arrives: the controller validates, calls
\* the service, and the service answers from the cache or calls upstream.
Start(q) ==
  /\ last = Quiet
  /\ IF CityIsInvalid(q)
     THEN /\ last' = [Quiet EXCEPT !.q = q, !.step = "start", !.http = BadRequest]
          /\ UNCHANGED <<data, pending>>
     ELSE LET g == CacheGet(data, CacheKey(q.s), now)
          IN  /\ data' = g.data
              /\ IF g.hit
                 THEN /\ last' = [Quiet EXCEPT !.q = q, !.step = "start",
                                               !.out = Returned(g.v, TRUE),
                                               !.http = Success(Returned(g.v, TRUE))]
                      /\ UNCHANGED pending
                 ELSE /\ InFlight < MaxInFlight
                      /\ pending' = [pending EXCEPT ![q.s] = @ + 1]
                      /\ last' = [Quiet EXCEPT !.q = q, !.step = "start"]
  /\ UNCHANGED <<now, okAt, raw, formatted, ui>>

\* axios.get settles with r for a lookup of city: the rest of the service
\* and of the controller.
Respond(city, r) ==
  /\ last = Quiet
  /\ pending[city] > 0
  /\ pending' = [pending EXCEPT ![city] = @ - 1]
  /\ LET s == ServiceSettle(data, city, r, now)
     IN  /\ data' = s.data
         /\ \E h \in (IF s.out.kind = "ok" THEN {Success(s.out)} ELSE CatchOutcomes) :
               last' = [Quiet EXCEPT !.q = QStr(city), !.step = "settle", !.up = r,
                                     !.out = s.out, !.http = h]
         /\ okAt' = IF s.out.kind = "ok"
                    THEN [okAt EXCEPT ![city] = now]
                    ELSE okAt
  /\ UNCHANGED <<now, raw, formatted, ui>>

\* The run of JavaScript is over; the next callback may run.
Return ==
  /\ last # Quiet
  /\ last' = Quiet
  /\ UNCHANGED <<now, data, pending, okAt, raw, formatted, ui>>

\* Time passes.
Tick ==
  /\ last = Quiet
  /\ now < MaxTime
  /\ now' = now + 1
  /\ UNCHANGED <<data, pending, last, okAt, raw, formatted, ui>>

\* node-cache's checkperiod timer fires.
Sweep ==
  /\ last = Quiet
  /\ ExpiredKeys(data, now) # {}
  /\ data' = Without(data, ExpiredKeys(data, now))
  /\ UNCHANGED <<now, pending, last, okAt, raw, formatted, ui>>

\* A request GET /api/weather/coordinates arrives.
Coords(lat, lon) ==
  /\ last = Quiet
  /\ \E h \in (IF CoordIsMissing(lat) \/ CoordIsMissing(lon)
               THEN {BadCoords}
               ELSE IF "getWeatherByCoords" \in ServiceExports
                    THEN {CoordsSuccess}
                    ELSE CoordsCatchOutcomes) :
        last' = [Quiet EXCEPT !.step = "coords", !.lat = lat, !.lon = lon, !.http = h]
  /\ UNCHANGED <<now, data, pending, okAt, raw, formatted, ui>>

(* -------------------------- frontend actions --------------------------- *)

\* The number of fetchWeather calls waiting for their response.
UiFetching == Total(ui.fetches, UiNames)

\* fetchWeather up to its first await: nothing for an empty name, else
\* setLoading(true), setError('') and the request leaves.
fetchWeather(u, cityName) ==
  IF cityName = EmptyStr
  THEN u
  ELSE [u EXCEPT !.loading = TRUE, !.error = "", !.fetches[cityName] = @ + 1]

\* What the current-weather request may end with: a body without error, a
\* body with error (with or without a message), or a thrown exception.
FetchOutcomes == { [kind |-> "ok", msg |-> ""],
                   [kind |-> "error", msg |-> NoMatch],
                   [kind |-> "error", msg |-> ""],
                   [kind |-> "throw", msg |-> ""] }

\* The input's onChange: setCity, the debounced suggestion search is
\* (re)armed with the text, setShowSuggestions(true).
TypeCity(text) ==
  /\ text # ui.city
  /\ ui' = [ui EXCEPT !.city = text, !.query = [def |-> TRUE, s |-> text],
                      !.showSuggestions = TRUE]
  /\ UNCHANGED <<now, data, pending, last, okAt, raw, formatted>>

\* The input's onFocus.
Focus ==
  /\ ~ui.showSuggestions
  /\ ui' = [ui EXCEPT !.showSuggestions = TRUE]
  /\ UNCHANGED <<now, data, pending, last, okAt, raw, formatted>>

\* The mousedown listener: a click outside the search box.
ClickOutside ==
  /\ ui.showSuggestions
  /\ ui' = [ui EXCEPT !.showSuggestions = FALSE]
  /\ UNCHANGED <<now, data, pending, last, okAt, raw, formatted>>

\* The debounce timer fires and fetchSuggestions runs to its end: [] for a
\* blank query or a failed request, else what the search answered.
Suggestions(list) ==
  /\ ui.query.def
  /\ (Trim(ui.query.s) = EmptyStr => list = <<>>)
  /\ ui' = [ui EXCEPT !.suggestions = list, !.query = NoQuery]
  /\ UNCHANGED <<now, data, pending, last, okAt, raw, formatted>>

\* The form's onSubmit.  The submit button is disabled while loading or
\* while the text is blank, and a form whose submit button is disabled is
\* not submitted.
handleSearch ==
  /\ ~(ui.loading \/ Trim(ui.city) = EmptyStr)
  /\ UiFetching < MaxFetches
  /\ ui' = IF Trim(ui.city) # EmptyStr
           THEN [fetchWeather(ui, ui.city) EXCEPT !.showSuggestions = FALSE]
           ELSE ui
  /\ UNCHANGED <<now, data, pending, last, okAt, raw, formatted>>

\* A click on the i-th item of the suggestion list, which is rendered when
\* showSuggestions holds and the list is not empty.
handleSuggestionClick(i) ==
  /\ ui.showSuggestions
  /\ i \in 1..Len(ui.suggestions)
  /\ UiFetching < MaxFetches
  /\ ui' = fetchWeather([ui EXCEPT !.city = ui.suggestions[i],
                                   !.showSuggestions = FALSE],
                        ui.suggestions[i])
  /\ UNCHANGED <<now, data, pending, last, okAt, raw, formatted>>

\* The rest of a fetchWeather call, once its response is there: the card or
\* the error, and in the finally block setLoading(false).
FetchDone(name, o) ==
  /\ ui.fetches[name] > 0
  /\ LET u == [ui EXCEPT !.fetches[name] = @ - 1]
         v == IF o.kind = "ok"
              THEN [u EXCEPT !.weather = name, !.city = EmptyStr]
              ELSE IF o.kind = "error"
                   THEN [u EXCEPT !.error = IF o.msg # "" THEN o.msg
                                                         ELSE "City not found."]
                   ELSE [u EXCEPT !.error = "Failed to fetch weather data"]
     IN  ui' = [v EXCEPT !.loading = FALSE]
  /\ UNCHANGED <<now, data, pending, last, okAt, raw, formatted>>

\* formatWeatherData is applied to the body drawn by InitFormat.
Format ==
  /\ formatted = NoValue
  /\ formatted' = formatWeatherData(raw, now)
  /\ UNCHANGED <<now, data, pending, last, okAt, raw, ui>>

(* --------------------------- specifications ---------------------------- *)

\* Every request, the whole life of cache entries, two kinds of answer.
Next ==
  \/ \E q \in Queries : Start(q)
  \/ \E c \in CityStrings, r \in LifecycleAnswers : Respond(c, r)
  \/ Return
  \/ Tick
  \/ Sweep

Spec == Init /\ [][Next]_vars

\* Every upstream answer, fewer requests.
NextUpstream ==
  \/ \E q \in UpstreamQueries : Start(q)
  \/ \E c \in CityStrings, r \in UpstreamAnswers : Respond(c, r)
  \/ Return
  \/ Tick
  \/ Sweep

SpecUpstream == Init /\ [][NextUpstream]_vars

\* The two endpoints of the router together.
NextCoords ==
  \/ \E lat, lon \in CoordValues : Coords(lat, lon)
  \/ \E q \in UpstreamQueries : Start(q)
  \/ \E c \in CityStrings, r \in LifecycleAnswers : Respond(c, r)
  \/ Return
  \/ Tick
  \/ Sweep

SpecCoords == Init /\ [][NextCoords]_vars

\* The App component of the frontend.
NextFrontend ==
  \/ \E text \in UiTexts : TypeCity(text)
  \/ Focus
  \/ ClickOutside
  \/ \E list \in SuggestionLists : Suggestions(list)
  \/ handleSearch
  \/ \E i \in 1..2 : handleSuggestionClick(i)
  \/ \E n \in UiNames, o \in FetchOutcomes : FetchDone(n, o)

SpecFrontend == Init /\ [][NextFrontend]_vars

\* formatWeatherData alone, over FormatInputs.
InitFormat ==
  /\ now = 0
  /\ data = << >>
  /\ pending = [c \in CityStrings |-> 0]
  /\ last = Quiet
  /\ okAt = [c \in CityStrings |-> Never]
  /\ raw \in FormatInputs
  /\ formatted = NoValue
  /\ ui = UiInit

NextFormat == Format

SpecFormat == InitFormat /\ [][NextFormat]_vars

(* ------------------------ vocabulary of the claims ---------------------- *)

\* The step is the handling of an arriving request.
IsStart == last = Quiet /\ last'.step = "start"

\* The step is the handling of an arriving request whose city is a string.
IsLookup == IsStart /\ last'.q.type = "string"

\* The step is the arrival of the upstream answer of a lookup.
IsSettle == last = Quiet /\ last'.step = "settle"

\* The city of the request the step handles.
StepCity == last'.q.s

\* The step made no upstream call.
NoUpstreamCall == pending' = pending

\* The step answered from the cache.
AnsweredFromCache ==
  /\ last'.out.kind = "ok"
  /\ last'.out.fromCache
  /\ last'.http.code = 200
  /\ last'.http.cached
  /\ NoUpstreamCall

\* The step found nothing usable in the cache and called upstream.
CalledUpstream ==
  /\ last'.out.kind = "none"
  /\ last'.http.code = 0
  /\ pending' = [pending EXCEPT ![StepCity] = @ + 1]

\* Two characters that are equal up to letter case.
SameLetter(x, y) ==
  \/ x = y
  \/ \E i \in 1..Len(UpperChars) : {x, y} = {UpperChars[i], LowerChars[i]}

\* Two names that differ at most in letter case.
SameName(a, b) ==
  /\ Len(a) = Len(b)
  /\ \A i \in 1..Len(a) : SameLetter(a[i], b[i])

\* The names whose lookups have returned fresh data and are spelt like c.
FetchedAs(c) == {d \in CityStrings : okAt[d] # Never /\ SameName(d, c)}

\* When the entry of c's key was last inserted.
InsertedAt(c) ==
  LET times == {okAt[d] : d \in FetchedAs(c)}
  IN  CHOOSE t \in times : \A u \in times : u <= t

(* -------------------------------- C1 ----------------------------------- *)

\* C1: after a lookup of a city has returned fresh data, every later lookup
\* of the same name in any letter case that starts before the TTL has
\* elapsed is answered from the cache: fromCache = true, a value the cache
\* holds and that is no older than that lookup's, and no upstream call.
C1_HitWithinTtl ==
  [][IsLookup =>
       \A c \in CityStrings :
         (okAt[c] # Never /\ SameName(c, StepCity) /\ now < okAt[c] + TTL)
         => /\ AnsweredFromCache
            /\ \E k \in DOMAIN data : data[k].v = last'.out.v
            /\ last'.out.v.timestamp >= okAt[c]
            /\ data' = data]_vars

\* A lookup of "london" was answered from the cache although only "London"
\* had ever been fetched.
C1_Witness ==
  /\ last.step = "start"
  /\ last.q = QStr(london)
  /\ last.out.kind = "ok" /\ last.out.fromCache
  /\ okAt[london] = Never
  /\ okAt[London] # Never

(* -------------------------------- C2 ----------------------------------- *)

\* C2: once more than TTL has passed since the entry of a key was inserted,
\* the next lookup of the key does not use it: the entry is gone, an
\* upstream call is made, and when that lookup returns data the data is
\* fresh and tagged fromCache = false.
C2_MissAfterTtl ==
  [][/\ IsLookup =>
          ((FetchedAs(StepCity) # {} /\ now > InsertedAt(StepCity) + TTL)
           => /\ CalledUpstream
              /\ CacheKey(StepCity) \notin DOMAIN data')
     /\ IsSettle =>
          (last'.out.kind = "ok"
           => /\ ~last'.out.fromCache
              /\ ~last'.http.cached
              /\ last'.out.v.timestamp = now)
    ]_vars

\* A lookup has just called upstream for a name that was fetched more than
\* TTL ago.
C2_Witness ==
  /\ last.step = "start"
  /\ last.out.kind = "none"
  /\ last.http.code = 0
  /\ last.q.type = "string"
  /\ pending[last.q.s] > 0
  /\ okAt[last.q.s] # Never
  /\ now > okAt[last.q.s] + TTL

(* -------------------------------- C3 ----------------------------------- *)

\* C3: the cache never holds more than MaxKeys entries.
C3_AtMostMaxKeys == Cardinality(DOMAIN data) <= MaxKeys

\* The cache is full and an insertion has just been refused.
C3_Witness ==
  /\ Cardinality(DOMAIN data) = MaxKeys
  /\ last.step = "settle"
  /\ last.out = Thrown("Cache max keys amount exceeded")

(* -------------------------------- C4 ----------------------------------- *)

\* Every entry of the cache is live.
AllLive == \A k \in DOMAIN data : data[k].t >= now

\* The keys whose entry is the oldest of the cache.
Oldest == {k \in DOMAIN data : \A j \in DOMAIN data : data[k].t <= data[j].t}

\* C4: when the cache holds MaxKeys live entries and upstream answers a
\* lookup of a key that is not cached with a good 200, the lookup evicts an
\* oldest entry, stores the new one and returns it with fromCache = false.
C4_EvictsOldestWhenFull ==
  [][(/\ IsSettle
      /\ last'.up = Resolved(200, GoodBody)
      /\ Cardinality(DOMAIN data) = MaxKeys
      /\ AllLive
      /\ CacheKey(StepCity) \notin DOMAIN data)
     => /\ last'.out.kind = "ok"
        /\ ~last'.out.fromCache
        /\ CacheKey(StepCity) \in DOMAIN data'
        /\ \E k \in Oldest :
             DOMAIN data' = ((DOMAIN data) \ {k}) \cup {CacheKey(StepCity)}]_vars

(* -------------------------------- C5 ----------------------------------- *)

\* C5: when upstream answers with a status outside 2xx, the lookup fails
\* with an error that carries the provider's message, or the message of the
\* request error when the body has none; it makes no further upstream call
\* and leaves the cache as it was, so that a key without an entry still has
\* none and its next lookup calls upstream.
C5_UpstreamErrorNotCached ==
  [][/\ (/\ IsSettle
         /\ last'.up.status # 0
         /\ (last'.up.status < 200 \/ last'.up.status >= 300))
        => /\ last'.out.kind = "error"
           /\ Len(last'.out.msg) = 2
           /\ last'.out.msg[2] = (IF last'.up.pmsg # "" THEN last'.up.pmsg
                                                        ELSE last'.up.emsg)
           /\ pending' = [pending EXCEPT ![StepCity] = @ - 1]
           /\ data' = data
     /\ (/\ IsLookup
         /\ \E i \in 1..Len(StepCity) : StepCity[i] # " "
         /\ CacheKey(StepCity) \notin DOMAIN data)
        => CalledUpstream
    ]_vars

\* A lookup has just failed with the provider's "No matching location
\* found." and its key has no entry.
C5_Witness ==
  /\ last.step = "settle"
  /\ last.up.status = 400
  /\ last.out.kind = "error"
  /\ last.out.msg = <<"Failed to fetch weather data: ", NoMatch>>
  /\ CacheKey(last.q.s) \notin DOMAIN data

(* -------------------------------- C6 ----------------------------------- *)

\* A query that is missing, empty or made of white space only.
IsBlankQuery(q) ==
  \/ q.type = "undefined"
  \/ (q.type = "string" /\ \A i \in 1..Len(q.s) : q.s[i] = " ")

\* C6: a request whose city is missing, empty or white space only is
\* answered 400 by the controller; no upstream call is made and the cache
\* is left as it was.
C6_BlankCityRejected ==
  [][(IsStart /\ IsBlankQuery(last'.q))
     => /\ last'.http.code = 400
        /\ last'.http.status = "error"
        /\ last'.out.kind = "none"
        /\ NoUpstreamCall
        /\ data' = data]_vars

\* A request with a city of two spaces has just been answered 400 while the
\* cache held an entry.
C6_Witness ==
  /\ last.step = "start"
  /\ last.q = QStr(Blank)
  /\ last.http.code = 400
  /\ DOMAIN data # {}

(* -------------------------------- C7 ----------------------------------- *)

\* C7: the cache key is the lower-cased, trimmed name: a lookup whose name
\* differs from a freshly fetched one only in letter case and surrounding
\* white space is answered from the cache, without an upstream call.
C7_TrimmedKey ==
  [][(IsLookup /\ Trim(StepCity) # EmptyStr) =>
       \A c \in CityStrings :
         (/\ okAt[c] # Never
          /\ SameName(Trim(c), Trim(StepCity))
          /\ now < okAt[c] + TTL)
         => AnsweredFromCache]_vars

(* -------------------------------- C8 ----------------------------------- *)

\* C8: when upstream answers 200 with a body that lacks location or current,
\* the lookup fails and nothing is stored.
C8_MalformedRejected ==
  [][(/\ IsSettle
      /\ last'.up.status = 200
      /\ last'.up.body.truthy
      /\ (~last'.up.body.location.def \/ ~last'.up.body.current.def))
     => /\ last'.out.kind = "error"
        /\ data' = data]_vars

(* -------------------------------- C9 ----------------------------------- *)

\* C9: when the provider says "No matching location found.", the city
\* endpoint answers 404.
C9_NotFoundIs404 ==
  (last.step = "settle" /\ last.up.pmsg = NoMatch) => last.http.code = 404

(* -------------------------------- C10 ---------------------------------- *)

\* r is an integer nearest to x tenths.
IsNearest(r, x) == 10 * r - x <= 5 /\ x - 10 * r <= 5

\* C10: for temp_c and feelslike_c in tenths of a degree, formatWeatherData
\* returns temp and feels_like rounded to the nearest integer,
\* temp_min = temp - 2, temp_max = temp + 2, and is_day = "day" exactly when
\* the body's is_day is 1.
C10_Formatting ==
  formatted # NoValue
  => /\ IsNearest(formatted.temp, raw.current.temp_c)
     /\ IsNearest(formatted.feels_like, raw.current.feelslike_c)
     /\ formatted.temp_min = formatted.temp - 2
     /\ formatted.temp_max = formatted.temp + 2
     /\ (formatted.is_day = "day") = (raw.current.is_day = 1)
     /\ formatted.is_day \in {"day", "night"}

\* The example of the specification: 15.4, 14.0, day give 15, 14, 13, 17, "day".
C10_Witness ==
  /\ raw.current = Current(154, 140, 1)
  /\ formatted.temp = 15
  /\ formatted.feels_like = 14
  /\ formatted.temp_min = 13
  /\ formatted.temp_max = 17
  /\ formatted.is_day = "day"

(* -------------------------------- C11 ---------------------------------- *)

\* C11: a request to /api/weather/coordinates with both lat and lon is
\* answered 200 with status "success"; a request without lat or without lon
\* is answered 400.
C11_CoordinatesAnswered ==
  last.step = "coords"
  => IF CoordIsMissing(last.lat) \/ CoordIsMissing(last.lon)
     THEN last.http.code = 400
     ELSE last.http.code = 200 /\ last.http.status = "success"

(* -------------------------------- C12 ---------------------------------- *)

\* The key of the step's city has no live entry.
StepKeyUncached ==
  \/ CacheKey(StepCity) \notin DOMAIN data
  \/ data[CacheKey(StepCity)].t < now

\* C12: lookups of one key are not merged.  A lookup that starts while
\* another lookup of the same name (in any letter case) is waiting for
\* upstream, and finds no live entry, makes its own upstream call; every
\* lookup that gets a good 200 below capacity returns fromCache = false and
\* writes the key's single entry, replacing what an earlier lookup wrote, so
\* the entry left is the one of the lookup that completed last.
C12_NoDeduplication ==
  [][/\ (/\ IsLookup
         /\ \E c \in CityStrings : pending[c] > 0 /\ SameName(c, StepCity)
         /\ StepKeyUncached)
        => CalledUpstream
     /\ (/\ IsSettle
         /\ last'.up = Resolved(200, GoodBody)
         /\ Cardinality(DOMAIN data) < MaxKeys)
        => /\ last'.out.kind = "ok"
           /\ ~last'.out.fromCache
           /\ DOMAIN data' = (DOMAIN data) \cup {CacheKey(StepCity)}
           /\ data'[CacheKey(StepCity)].v = last'.out.v
           /\ data'[CacheKey(StepCity)].v.timestamp = now
           /\ \A k \in (DOMAIN data) \ {CacheKey(StepCity)} : data'[k] = data[k]
    ]_vars

\* The lookup of "london" has just returned fresh data and written the
\* entry at a later time than the lookup of "London" did, while the entry
\* "London" wrote was still live: the two lookups overlapped.
C12_Witness ==
  /\ last.step = "settle"
  /\ last.q = QStr(london)
  /\ last.out.kind = "ok" /\ ~last.out.fromCache
  /\ okAt[London] # Never
  /\ okAt[London] < now
  /\ now < okAt[London] + TTL
  /\ Cardinality(DOMAIN data) = 1
  /\ data[CacheKey(london)].v.timestamp = now

(* -------------------------------- C13 ---------------------------------- *)

\* C13: a lookup answered from the cache leaves the cache as it was; every
\* entry expires at the time it was inserted plus TTL, however often it has
\* been hit, and a lookup that finds its entry older than that calls
\* upstream.
C13_HitChangesNothing ==
  [][/\ (IsLookup /\ last'.out.kind = "ok" /\ last'.out.fromCache)
        => /\ data' = data
           /\ CacheKey(StepCity) \in DOMAIN data
           /\ last'.out.v = data[CacheKey(StepCity)].v
     /\ \A k \in DOMAIN data' : data'[k].t = data'[k].v.timestamp + TTL
     /\ (/\ IsLookup
         /\ CacheKey(StepCity) \in DOMAIN data
         /\ now > data[CacheKey(StepCity)].v.timestamp + TTL)
        => CalledUpstream
    ]_vars

\* A lookup has just been answered from an entry inserted earlier, whose
\* expiry still is its insertion time plus TTL.
C13_Witness ==
  /\ last.step = "start"
  /\ last.out.kind = "ok" /\ last.out.fromCache
  /\ last.out.v.timestamp < now
  /\ CacheKey(last.q.s) \in DOMAIN data
  /\ data[CacheKey(last.q.s)].t = last.out.v.timestamp + TTL

(* -------------------------------- C14 ---------------------------------- *)

\* C14: the loading flag is true exactly when at least one fetchWeather
\* call is waiting for its response.
C14_LoadingTracksFetches == ui.loading = (UiFetching > 0)

====
